---- MODULE Spec2Model ----
(***************************************************************************)
(* Model of ai_medical_imaging.py: a Streamlit script that is re-executed  *)
(* top to bottom on every user interaction, and the two-node LangGraph     *)
(* agent (chatbot <-> tools) it builds and invokes when "Analyze Image" is *)
(* clicked.                                                                *)
(*                                                                         *)
(* The graph library is used with its defaults: ToolNode runs the tool     *)
(* calls of the last AI message in parallel and returns one ToolMessage    *)
(* per call in request order, turning a tool exception into an error       *)
(* ToolMessage; tools_condition routes to "tools" iff the last AI message  *)
(* has tool calls; invoke() raises GraphRecursionError once                *)
(* recursion_limit super-steps have been executed.                         *)
(***************************************************************************)
EXTENDS Integers, Sequences, FiniteSets, TLC

\* ------------------------------------------------------------------------
\* Bounds of the model
\* ------------------------------------------------------------------------
\* Number of chatbot -> tools round trips that fit under the recursion limit
\* (the library default recursion_limit = 25 = 2 * 12 + 1).
MaxToolRounds == 2

\* Largest number of tool calls the model puts in one AI message.
MaxCalls == 2

\* Largest number of tool calls the model makes in one graph run.
MaxRunCalls == 5

\* ------------------------------------------------------------------------
\* Values
\* ------------------------------------------------------------------------
None == "None"

\* Credentials the user may type into the sidebar text input.
Keys == {"sk-1"}

\* Texts are sequences of tokens; a token is whitespace or a piece of text.
Tok(k, n) == [k |-> k, n |-> n]

WS == Tok("ws", 0)

\* Mutant: the text is tested without strip().
NonEmpty(s) == Len(s) > 0

\* str.strip() is non-empty iff some character is not whitespace.
StripNonEmpty(s) == \E i \in 1..Len(s) : s[i] # WS

\* The prompt of lines 107-144 and the base64 image part.
query == <<Tok("query", 0)>>

encoded_image == <<Tok("image", 0)>>

Msg(t, c, calls, cid) ==
    [type |-> t, content |-> c, tool_calls |-> calls, tool_call_id |-> cid]

\* tools = [ddg_tool]: the tool set bound to the model and to the tools node.
tools == {"duckduckgo_search"}

\* Mutant: the image part is left out of the user message.
UserMessageTextOnly == Msg("human", query, <<>>, 0)

\* The initial graph state of lines 194-210: one user message, text + image.
UserMessage == Msg("human", query \o encoded_image, <<>>, 0)

VARIABLES
    OPENAI_API_KEY,   \* st.session_state.OPENAI_API_KEY
    uploaded_file,    \* the file uploader holds a file
    analyze_button,   \* the Analyze button was clicked for this script run
    medical_agent,    \* the compiled graph exists (is not None)
    llmKey,           \* openai_api_key the ChatOpenAI client was built with
    image_exists,     \* temp_medical_image.png exists on disk
    pc,               \* position of the script run
    shown,            \* elements written to the page by this script run
    output,           \* the markdown rendered under "Analysis Results"
    messages,         \* the graph state's message list
    status,           \* graph run: which node is next, or how it ended
    step,             \* super-steps executed by the graph run
    completed,        \* tool calls of the running tools node, completion order
    interrupted       \* the script run was stopped by a control exception

vars == <<OPENAI_API_KEY, uploaded_file, analyze_button, medical_agent, llmKey,
          image_exists, pc, shown, output, messages, status, step, completed,
          interrupted>>

session == <<OPENAI_API_KEY, uploaded_file>>

graph == <<messages, status, step, completed>>

\* ------------------------------------------------------------------------
\* Helpers over the message list
\* ------------------------------------------------------------------------
Last(s) == s[Len(s)]

RECURSIVE SeqSum(_)
SeqSum(s) == IF s = <<>> THEN 0 ELSE Head(s) + SeqSum(Tail(s))

\* Number of tool calls requested so far in the conversation.
NumCalls(msgs) == SeqSum([i \in 1..Len(msgs) |-> Len(msgs[i].tool_calls)])

\* Number of reasoning steps that returned a message.
NumAI(msgs) == Cardinality({i \in 1..Len(msgs) : msgs[i].type = "ai"})

\* The service gives every tool call an id of its own.
NewCalls(msgs, n) == [j \in 1..n |-> NumCalls(msgs) + j]

\* Contents the model may return on its n-th reasoning step, with k tool
\* calls: none, the text of that step or, for a direct answer, blanks only.
Contents(n, k) ==
    {<<>>, <<Tok("ai", n)>>} \cup (IF k = 0 THEN {<<WS>>} ELSE {})

AllContents == UNION {Contents(n, 0) : n \in 1..(MaxToolRounds + 1)}

AIMessage(c, calls) == Msg("ai", c, calls, 0)

ToolMessage(c, cid) == Msg("tool", c, <<>>, cid)

\* Mutant: the messages key has no reducer, a node's update replaces the list.
replace_messages(left, right) == right

\* State.messages is annotated with add_messages: the update of a node is
\* appended to the list (every new message has an id of its own, so none
\* replaces an earlier one).
add_messages(left, right) == left \o right

\* recursion_limit of medical_agent.invoke(state): none is passed, so the
\* library default applies (scaled here with MaxToolRounds).
RecursionLimit == 2 * MaxToolRounds + 1

\* Mutant: the conditional edge always ends the run.
tools_condition_end(msgs) == "__end__"

\* tools_condition: route on the tool calls of the last (AI) message.
tools_condition(msgs) ==
    IF Len(Last(msgs).tool_calls) > 0 THEN "tools" ELSE "__end__"

\* Mutant: the loop has no recursion check.
AfterStepNoLimit(s, route) == IF route = "__end__" THEN "done" ELSE route

\* The graph loop after a super-step: the recursion check comes before the
\* next tasks are prepared, so it also hits a run that would have ended.
AfterStep(s, route) ==
    IF s >= RecursionLimit THEN "out_of_steps"
    ELSE IF route = "__end__" THEN "done" ELSE route

\* Mutant: a run that ran out of steps returns its state like a finished one.
AfterInvokeReturnsPartial(st) ==
    IF st \in {"done", "out_of_steps"} THEN "render" ELSE "invoke"

\* invoke() returns the state when the graph is done and raises
\* GraphRecursionError when it ran out of steps.
AfterInvoke(st) ==
    CASE st = "done" -> "render"
      [] st = "out_of_steps" -> "except"
      [] OTHER -> "invoke"

\* ------------------------------------------------------------------------
\* Initial state: a new session, the script has not run yet
\* ------------------------------------------------------------------------
Init ==
    /\ OPENAI_API_KEY = None
    /\ uploaded_file = FALSE
    /\ analyze_button = FALSE
    /\ medical_agent = FALSE
    /\ llmKey = None
    /\ image_exists = FALSE
    /\ pc = "idle"
    /\ shown = {}
    /\ output = <<>>
    /\ messages = <<>>
    /\ status = "none"
    /\ step = 0
    /\ completed = <<>>
    /\ interrupted = FALSE

\* Everything a script run owns starts afresh when the script is re-executed.
FreshRun ==
    /\ medical_agent' = FALSE
    /\ llmKey' = None
    /\ shown' = {}
    /\ output' = <<>>
    /\ messages' = <<>>
    /\ status' = "none"
    /\ step' = 0
    /\ completed' = <<>>
    /\ interrupted' = FALSE

\* ------------------------------------------------------------------------
\* The script, top to bottom
\* ------------------------------------------------------------------------
\* Lines 30-66. A user interaction (or st.rerun) starts a script run; the
\* sidebar stores a typed key or clears it on Reset, and then reruns.
Events == {"none", "key", "reset", "upload", "remove", "analyze"}

\* Mutant: a typed or cleared key does not rerun the script.
SidebarNoRerun(ev, k) ==
    /\ pc \in {"idle", "rerun"}
    /\ pc = "rerun" => ev = "none"
    /\ ev = "key" => OPENAI_API_KEY = None
    /\ ev = "reset" => OPENAI_API_KEY # None
    /\ ev = "upload" => ~uploaded_file
    /\ ev \in {"remove", "analyze"} => uploaded_file
    /\ FreshRun
    /\ uploaded_file' = CASE ev = "upload" -> TRUE
                          [] ev = "remove" -> FALSE
                          [] OTHER -> uploaded_file
    /\ analyze_button' = (ev = "analyze")
    /\ OPENAI_API_KEY' = CASE ev = "key" -> k
                           [] ev = "reset" -> None
                           [] OTHER -> OPENAI_API_KEY
    /\ pc' = "init"
    /\ UNCHANGED image_exists

Sidebar(ev, k) ==
    /\ pc \in {"idle", "rerun"}
    /\ pc = "rerun" => ev = "none"
    /\ ev = "key" => OPENAI_API_KEY = None
    /\ ev = "reset" => OPENAI_API_KEY # None
    /\ ev = "upload" => ~uploaded_file
    /\ ev \in {"remove", "analyze"} => uploaded_file
    /\ FreshRun
    /\ uploaded_file' = CASE ev = "upload" -> TRUE
                          [] ev = "remove" -> FALSE
                          [] OTHER -> uploaded_file
    /\ analyze_button' = (ev = "analyze")
    /\ OPENAI_API_KEY' = CASE ev = "key" -> k
                           [] ev = "reset" -> None
                           [] OTHER -> OPENAI_API_KEY
    /\ pc' = IF ev \in {"key", "reset"} THEN "rerun" ELSE "init"
    /\ UNCHANGED image_exists

\* Mutant: the agent is built whether or not a key is configured.
InitAgentAlways ==
    /\ pc = "init"
    /\ medical_agent' = TRUE
    /\ llmKey' = OPENAI_API_KEY
    /\ pc' = "upload"
    /\ UNCHANGED <<session, interrupted, analyze_button, image_exists, shown, output, graph>>

\* Lines 71-102. The agent is built iff a key is configured.
InitAgent ==
    /\ pc = "init"
    /\ IF OPENAI_API_KEY # None
       THEN /\ medical_agent' = TRUE
            /\ llmKey' = OPENAI_API_KEY
            /\ UNCHANGED shown
       ELSE /\ medical_agent' = FALSE
            /\ UNCHANGED llmKey
            /\ shown' = shown \cup {"warn_key"}
    /\ pc' = "upload"
    /\ UNCHANGED <<session, interrupted, analyze_button, image_exists, output, graph>>

\* Lines 156-189 and 245-246. An uploaded image is saved to the temp file;
\* the handler is entered only when the Analyze button was clicked.
Upload ==
    /\ pc = "upload"
    /\ IF uploaded_file
       THEN /\ image_exists' = TRUE
            /\ pc' = IF analyze_button THEN "try" ELSE "idle"
            /\ UNCHANGED shown
       ELSE /\ shown' = shown \cup {"info_upload"}
            /\ pc' = "idle"
            /\ UNCHANGED image_exists
    /\ UNCHANGED <<session, interrupted, analyze_button, medical_agent, llmKey, output, graph>>

\* Lines 191-213 and 236-237. With an agent the graph is invoked on the
\* initial state (entry point: chatbot); without one a warning is shown.
Analyze ==
    /\ pc = "try"
    /\ IF medical_agent
       THEN /\ messages' = <<UserMessage>>
            /\ status' = "chatbot"
            /\ pc' = "invoke"
            /\ UNCHANGED shown
       ELSE /\ shown' = shown \cup {"warn_noagent"}
            /\ pc' = "finally"
            /\ UNCHANGED <<messages, status>>
    /\ UNCHANGED <<session, interrupted, analyze_button, medical_agent, llmKey,
                   image_exists, output, step, completed>>

\* ------------------------------------------------------------------------
\* The graph run started by medical_agent.invoke(state)
\* ------------------------------------------------------------------------
\* Lines 85-88 and the conditional edge of line 96. The model returns an AI
\* message with a content and n tool calls; the message is appended and the
\* run goes to the tools node, ends, or runs out of steps.
Chatbot(c, n) ==
    /\ pc = "invoke"
    /\ status = "chatbot"
    /\ c \in Contents(NumAI(messages) + 1, n)
    /\ NumCalls(messages) + n <= MaxRunCalls
    /\ LET response == AIMessage(c, NewCalls(messages, n))
           msgs == add_messages(messages, <<response>>)
           st == AfterStep(step + 1, tools_condition(msgs))
       IN /\ messages' = msgs
          /\ step' = step + 1
          /\ status' = st
          /\ pc' = AfterInvoke(st)
    /\ completed' = <<>>
    /\ UNCHANGED <<session, interrupted, analyze_button, medical_agent, llmKey,
                   image_exists, shown, output>>

\* Mutant: a failed model call is treated as the end of the run and what the
\* conversation holds so far is rendered.
ChatbotRaiseRenders ==
    /\ pc = "invoke"
    /\ status = "chatbot"
    /\ status' = "model_error"
    /\ pc' = "render"
    /\ UNCHANGED <<session, interrupted, analyze_button, medical_agent, llmKey,
                   image_exists, shown, output, messages, step, completed>>

\* Line 86 raising: the call to the model fails, nothing is appended, and
\* the exception leaves invoke() for the handler of line 238.
ChatbotRaise ==
    /\ pc = "invoke"
    /\ status = "chatbot"
    /\ status' = "model_error"
    /\ pc' = "except"
    /\ UNCHANGED <<session, interrupted, analyze_button, medical_agent, llmKey,
                   image_exists, shown, output, messages, step, completed>>

\* The tool calls the tools node works on: those of the last message.
PendingCalls == Last(messages).tool_calls

Completed(i) == \E p \in 1..Len(completed) : completed[p].i = i

\* Line 92. The tool calls of one AI message run in parallel: any call that
\* has not returned yet may return next, with a result or with an exception.
ToolComplete(i, ok) ==
    /\ pc = "invoke"
    /\ status = "tools"
    /\ i \in 1..Len(PendingCalls)
    /\ ~Completed(i)
    /\ completed' = Append(completed, [i |-> i, ok |-> ok])
    /\ UNCHANGED <<session, interrupted, analyze_button, medical_agent, llmKey,
                   image_exists, pc, shown, output, messages, status, step>>

\* What one tool call contributes: its output, or the text of its error.
ToolContent(cid, ok) ==
    IF ok THEN <<Tok("result", cid)>> ELSE <<Tok("error", cid)>>

\* Mutant: the messages are returned in the order the calls completed.
ToolOutputsAsCompleted(calls, comp) ==
    [p \in 1..Len(calls) |->
        ToolMessage(ToolContent(calls[comp[p].i], comp[p].ok), calls[comp[p].i])]

\* Mutant: a result is correlated by the position of its call, not by its id.
ToolOutputsByPosition(calls, comp) ==
    [p \in 1..Len(calls) |->
        LET r == CHOOSE r \in {comp[q] : q \in 1..Len(comp)} : r.i = p
        IN ToolMessage(ToolContent(calls[p], r.ok), p)]

\* ToolNode: one ToolMessage per tool call, in the order of the requests.
ToolOutputs(calls, comp) ==
    [p \in 1..Len(calls) |->
        LET r == CHOOSE r \in {comp[q] : q \in 1..Len(comp)} : r.i = p
        IN ToolMessage(ToolContent(calls[p], r.ok), calls[p])]

\* Mutant: tool exceptions are not handled by the tools node.
handle_tool_errors_off == FALSE

\* ToolNode(tools=tools) keeps the default handle_tool_errors.
handle_tool_errors == TRUE

\* Lines 92-97. When every call has returned the tools node appends its
\* messages and the edge tools -> chatbot is taken.
ToolsReturn ==
    /\ pc = "invoke"
    /\ status = "tools"
    /\ Len(completed) = Len(PendingCalls)
    /\ IF ~handle_tool_errors /\ \E p \in 1..Len(completed) : ~completed[p].ok
       THEN /\ status' = "tool_error"
            /\ pc' = "except"
            /\ UNCHANGED <<messages, step>>
       ELSE LET st == AfterStep(step + 1, "chatbot")
            IN /\ messages' =
                     add_messages(messages, ToolOutputs(PendingCalls, completed))
               /\ step' = step + 1
               /\ status' = st
               /\ pc' = AfterInvoke(st)
    /\ UNCHANGED <<session, interrupted, analyze_button, medical_agent, llmKey,
                   image_exists, shown, output, completed>>

\* ------------------------------------------------------------------------
\* After invoke(): rendering, the exception handler, the cleanup
\* ------------------------------------------------------------------------
ToolResultHeader == <<Tok("### Tool Result:", 0)>>

\* Mutant: the second branch matches the type of the tools node's messages.
RECURSIVE combined_response_tool(_)
combined_response_tool(msgs) ==
    IF msgs = <<>> THEN <<>>
    ELSE LET message == Head(msgs)
             piece == IF message.type = "ai"
                      THEN message.content
                      ELSE IF message.type = "tool" /\ message.content # <<>>
                           THEN ToolResultHeader \o message.content
                           ELSE <<>>
         IN piece \o combined_response_tool(Tail(msgs))

\* Lines 219-228. AI contents are concatenated; the second branch asks for
\* messages of type "tool_call".
RECURSIVE combined_response(_)
combined_response(msgs) ==
    IF msgs = <<>> THEN <<>>
    ELSE LET message == Head(msgs)
             piece == IF message.type = "ai"
                      THEN IF message.content # <<>> THEN message.content ELSE <<>>
                      ELSE IF message.type = "tool_call"
                           THEN IF message.content # <<>>
                                THEN ToolResultHeader \o message.content
                                ELSE <<>>
                           ELSE <<>>
         IN piece \o combined_response(Tail(msgs))

\* Mutant: only the content of the last message is rendered.
RenderLastMessage ==
    /\ pc = "render"
    /\ LET text == Last(messages).content
       IN IF StripNonEmpty(text)
          THEN /\ shown' = shown \cup {"results"}
               /\ output' = text
          ELSE /\ shown' = shown \cup {"err_missing"}
               /\ UNCHANGED output
    /\ pc' = "finally"
    /\ UNCHANGED <<session, interrupted, analyze_button, medical_agent, llmKey,
                   image_exists, graph>>

\* Lines 218-235. The result state is rendered, or reported as missing.
Render ==
    /\ pc = "render"
    /\ LET text == combined_response(messages)
       IN IF StripNonEmpty(text)
          THEN /\ shown' = shown \cup {"results"}
               /\ output' = text
          ELSE /\ shown' = shown \cup {"err_missing"}
               /\ UNCHANGED output
    /\ pc' = "finally"
    /\ UNCHANGED <<session, interrupted, analyze_button, medical_agent, llmKey,
                   image_exists, graph>>

\* Mutant: the cleanup sits at the end of the try block, not in a finally.
ExceptSkipsCleanup ==
    /\ pc = "except"
    /\ shown' = shown \cup {"err_analysis"}
    /\ pc' = "idle"
    /\ UNCHANGED <<session, interrupted, analyze_button, medical_agent, llmKey,
                   image_exists, output, graph>>

\* Lines 238-239. Any exception of the try block is shown as an error.
Except ==
    /\ pc = "except"
    /\ shown' = shown \cup {"err_analysis"}
    /\ pc' = "finally"
    /\ UNCHANGED <<session, interrupted, analyze_button, medical_agent, llmKey,
                   image_exists, output, graph>>

\* Lines 240-243. The temp file is removed and the script run ends.
Finally ==
    /\ pc = "finally"
    /\ image_exists' = FALSE
    /\ pc' = "idle"
    /\ UNCHANGED <<session, interrupted, analyze_button, medical_agent, llmKey,
                   shown, output, graph>>

Next ==
    \/ \E ev \in Events, k \in Keys : Sidebar(ev, k)
    \/ InitAgent
    \/ Upload
    \/ Analyze
    \/ \E n \in 0..MaxCalls, c \in AllContents : Chatbot(c, n)
    \/ ChatbotRaise
    \/ \E i \in 1..MaxCalls, ok \in BOOLEAN : ToolComplete(i, ok)
    \/ ToolsReturn
    \/ Render
    \/ Except
    \/ Finally

Spec == Init /\ [][Next]_vars

\* ------------------------------------------------------------------------
\* Script runs that the framework stops
\* ------------------------------------------------------------------------
\* Lines 189-243 when the user interacts again (or leaves) while the handler
\* runs: the framework raises a control exception, which is not an Exception,
\* out of the handler's next st.* call (lines 232, 235, 237, 239), so that
\* call shows nothing, line 238 does not catch it and only the finally block
\* still runs. invoke() itself makes no st.* call and always runs to its end.
Abandon ==
    /\ \/ pc \in {"render", "except"}
       \/ pc = "try" /\ ~medical_agent
    /\ interrupted' = TRUE
    /\ pc' = "finally"
    /\ UNCHANGED <<session, analyze_button, medical_agent, llmKey,
                   image_exists, shown, output, graph>>

NextAbandon == Next \/ Abandon

SpecAbandon == Init /\ [][NextAbandon]_vars

\* ------------------------------------------------------------------------
\* Vocabulary of the properties
\* ------------------------------------------------------------------------
\* The positions <<j, p>> of the tool calls with id cid requested before i.
RequestsBefore(msgs, i, cid) ==
    UNION {{<<j, p>> : p \in {q \in 1..Len(msgs[j].tool_calls) :
                                  msgs[j].tool_calls[q] = cid}} :
              j \in {k \in 1..(i - 1) : msgs[k].type = "ai"}}

\* The tool messages answering the tool call with id cid.
ResultsFor(msgs, cid) ==
    {i \in 1..Len(msgs) : msgs[i].type = "tool" /\ msgs[i].tool_call_id = cid}

\* The ids of the tool calls that have no tool message.
Unanswered(msgs) ==
    {cid \in 1..NumCalls(msgs) :
        /\ RequestsBefore(msgs, Len(msgs) + 1, cid) # {}
        /\ ResultsFor(msgs, cid) = {}}

\* Executions of the tools node in this graph run.
NumActs == step - NumAI(messages)

\* The last message is a direct answer of the model.
DirectAnswer ==
    /\ messages # <<>>
    /\ Last(messages).type = "ai"
    /\ Last(messages).tool_calls = <<>>

\* Reasoning steps the recursion limit leaves room for.
MaxReasonSteps == MaxToolRounds + 1

Failures == {"warn_key", "warn_noagent", "err_analysis", "err_missing"}

\* ------------------------------------------------------------------------
\* C1: at every point of a run, every tool message carries the id of exactly
\* one tool call requested earlier in the conversation, and no other tool
\* message carries that id (the request was unanswered when it was answered).
\* ------------------------------------------------------------------------
C1_ResultMatchesOneOpenRequest ==
    \A i \in 1..Len(messages) :
        messages[i].type = "tool" =>
            /\ Cardinality(RequestsBefore(messages, i, messages[i].tool_call_id)) = 1
            /\ ResultsFor(messages, messages[i].tool_call_id) = {i}

\* Two rounds of tool calls have been answered, the first with two calls.
C1_Witness ==
    /\ NumAI(messages) >= 2
    /\ Last(messages).type = "tool"
    /\ Len(messages[2].tool_calls) = 2

\* ------------------------------------------------------------------------
\* C2: once the graph run has terminated, however it ended, no tool call of
\* the conversation is without a tool message.
\* ------------------------------------------------------------------------
C2_TerminatedRunAllAnswered ==
    status \in {"done", "out_of_steps", "model_error"} => Unanswered(messages) = {}

C4_AbortsAtRecursionLimit ==
    /\ NumAI(messages) <= MaxReasonSteps
    /\ step <= RecursionLimit
    /\ status \in {"chatbot", "tools"} => step < RecursionLimit
    /\ (/\ NumAI(messages) = MaxReasonSteps
        /\ \A i \in 1..Len(messages) :
              messages[i].type = "ai" => messages[i].tool_calls # <<>>)
          => /\ status = "out_of_steps"
             /\ pc \in {"except", "finally", "idle"}
    /\ (status = "out_of_steps" /\ pc \in {"finally", "idle"})
          => /\ "err_analysis" \in shown
             /\ "results" \notin shown

\* The run of a model that always requested tools was aborted and reported.
C4_Witness ==
    /\ status = "out_of_steps"
    /\ pc = "idle"
    /\ "err_analysis" \in shown
    /\ \A i \in 1..Len(messages) :
          messages[i].type = "ai" => messages[i].tool_calls # <<>>

\* ------------------------------------------------------------------------
\* C5: a failing tool call is not fatal: the tools node answers it with a
\* tool message that carries the error text under the id of the request and
\* hands over to the chatbot node; a run in which tools failed and the model
\* then answered with text ends DONE and shows the results, not an error.
\* ------------------------------------------------------------------------
C5_ToolFailureInv ==
    /\ status # "tool_error"
    /\ (/\ status = "done"
        /\ pc \in {"finally", "idle"}
        /\ StripNonEmpty(Last(messages).content))
          => /\ "results" \in shown
             /\ "err_analysis" \notin shown

C5_ToolFailureStep ==
    (status = "tools" /\ status' # "tools") =>
        /\ status' \in {"chatbot", "out_of_steps"}
        /\ Len(messages') = Len(messages) + Len(completed)
        /\ \A q \in 1..Len(completed) :
              ~completed[q].ok =>
                 \E i \in (Len(messages) + 1)..Len(messages') :
                    /\ messages'[i].type = "tool"
                    /\ messages'[i].tool_call_id = PendingCalls[completed[q].i]
                    /\ messages'[i].content =
                          <<Tok("error", PendingCalls[completed[q].i])>>

C6_ModelFailureInv ==
    status = "model_error" =>
        /\ pc \in {"except", "finally", "idle"}
        /\ "results" \notin shown
        /\ output = <<>>
        /\ pc \in {"finally", "idle"} => "err_analysis" \in shown

C6_ModelFailureStep ==
    (status = "model_error" /\ pc # "idle") =>
        /\ UNCHANGED <<messages, step, status>>
        /\ pc' \in {"finally", "idle"}

C6_ModelFailureIsFatal == []C6_ModelFailureInv /\ [][C6_ModelFailureStep]_vars

\* The model call failed after a tool round whose reasoning step had text.
C6_Witness ==
    /\ status = "model_error"
    /\ pc = "idle"
    /\ NumAI(messages) >= 1
    /\ StripNonEmpty(combined_response(messages))

\* ------------------------------------------------------------------------
\* C7: a script run without a credential builds no agent and never starts a
\* graph run (no model call, no tool call); the user is asked for the key,
\* and an Analyze click is answered with the no-agent warning.
\* ------------------------------------------------------------------------
C7_NoCredentialNoRun ==
    OPENAI_API_KEY = None =>
        /\ ~medical_agent
        /\ status = "none"
        /\ messages = <<>>
        /\ step = 0
        /\ pc \notin {"invoke", "render", "except"}
        /\ pc \in {"upload", "try", "finally"} => "warn_key" \in shown
        /\ (analyze_button /\ pc \in {"finally", "idle"}) =>
              {"warn_key", "warn_noagent"} \subseteq shown

\* Analyze was clicked with no credential set and the script run is over.
C7_Witness ==
    /\ OPENAI_API_KEY = None
    /\ analyze_button
    /\ pc = "idle"
    /\ "warn_noagent" \in shown

\* ------------------------------------------------------------------------
\* C8: when a script run that handled an Analyze click is over, the temp
\* image file does not exist, on every exit path of the handler.
\* ------------------------------------------------------------------------
C8_AnalysisRemovesTempImage ==
    (analyze_button /\ pc = "idle") => ~image_exists

\* All four exit paths are taken; this one is the exception path.
C8_Witness ==
    /\ analyze_button
    /\ pc = "idle"
    /\ "err_analysis" \in shown
    /\ ~image_exists

\* ------------------------------------------------------------------------
\* C9: whenever a failure has been shown and the script run is over, the
\* temp image file does not exist.
\* ------------------------------------------------------------------------
C9_NoFailureLeavesTempImage ==
    (pc = "idle" /\ shown \cap Failures # {}) => ~image_exists

\* ------------------------------------------------------------------------
\* C10: the tool messages of one tools step follow their AI message in the
\* order of its tool calls, whichever call completed first.
\* ------------------------------------------------------------------------
C10_ResultsInRequestOrder ==
    \A j \in 1..Len(messages) :
        (messages[j].type = "ai" /\ Len(messages) > j) =>
            \A p \in 1..Len(messages[j].tool_calls) :
                /\ j + p <= Len(messages)
                /\ messages[j + p].type = "tool"
                /\ messages[j + p].tool_call_id = messages[j].tool_calls[p]

\* Two calls were requested, the second completed first, both are answered.
C10_Witness ==
    /\ Len(completed) = 2
    /\ completed[1].i = 2
    /\ status # "tools"
    /\ Last(messages).type = "tool"

\* ------------------------------------------------------------------------
\* Vocabulary of the rendering properties
\* ------------------------------------------------------------------------
\* The contents of the AI messages, in conversation order.
RECURSIVE AIText(_)
AIText(msgs) ==
    IF msgs = <<>> THEN <<>>
    ELSE (IF Head(msgs).type = "ai" THEN Head(msgs).content ELSE <<>>)
            \o AIText(Tail(msgs))

\* Every AI message of the conversation is empty or whitespace only.
AllAIBlank ==
    \A i \in 1..Len(messages) :
        messages[i].type = "ai" =>
            \A j \in 1..Len(messages[i].content) : messages[i].content[j] = WS

\* An AI message before the last one carries text.
EarlierAIText ==
    \E i \in 1..(Len(messages) - 1) :
        messages[i].type = "ai" /\ StripNonEmpty(messages[i].content)

\* ------------------------------------------------------------------------
\* C11 as stated: the output shown for a run that reached DONE is the text
\* of the last AI message.
\* ------------------------------------------------------------------------
C11_OutputIsLastAnswer ==
    "results" \in shown => output = Last(messages).content

\* C11 amended: the output shown is the concatenation, in conversation
\* order, of the contents of all AI messages of the run; it ends with the
\* content of the last one and equals it when no earlier AI message has text.
C11_OutputIsAllAIText ==
    "results" \in shown =>
        /\ status = "done"
        /\ output = AIText(messages)
        /\ LET last == Last(messages).content
           IN /\ Len(output) >= Len(last)
              /\ SubSeq(output, Len(output) - Len(last) + 1, Len(output)) = last
        /\ ~EarlierAIText => output = Last(messages).content

\* A result is shown for a run whose first AI message carried both text and
\* a tool request and whose last AI message carried the answer.
C11_Witness ==
    /\ "results" \in shown
    /\ NumAI(messages) = 2
    /\ messages[2].tool_calls # <<>>
    /\ StripNonEmpty(messages[2].content)
    /\ StripNonEmpty(Last(messages).content)

\* ------------------------------------------------------------------------
\* C12: a run that reached DONE with no text to extract (every AI message
\* empty or whitespace only) shows the missing-response error, no results
\* block and no analysis error; the results block is shown exactly when the
\* combined text is not blank.
\* ------------------------------------------------------------------------
C12_BlankResponseIsReported ==
    /\ (status = "done" /\ pc \in {"finally", "idle"} /\ ~interrupted) =>
          /\ "err_analysis" \notin shown
          /\ IF AllAIBlank
             THEN /\ "err_missing" \in shown
                  /\ "results" \notin shown
                  /\ output = <<>>
             ELSE /\ "results" \in shown
                  /\ "err_missing" \notin shown
    /\ "results" \in shown => \E j \in 1..Len(output) : output[j] # WS

\* The model answered with whitespace only after a tool round.
C12_Witness ==
    /\ status = "done"
    /\ pc = "idle"
    /\ "err_missing" \in shown
    /\ Last(messages).content = <<WS>>
    /\ NumAI(messages) = 2

C13_AlternationInv ==
    /\ status = "chatbot" =>
          /\ step % 2 = 0
          /\ Last(messages).type \in {"human", "tool"}
    /\ status = "tools" =>
          /\ step % 2 = 1
          /\ Last(messages).type = "ai"
          /\ Last(messages).tool_calls # <<>>
    /\ messages # <<>> => NumAI(messages) = (step + 1) \div 2

C13_AppendOnlyStep ==
    pc \notin {"idle", "rerun"} =>
        /\ Len(messages') >= Len(messages)
        /\ SubSeq(messages', 1, Len(messages)) = messages
        /\ step' \in {step, step + 1}
        /\ step' = step => messages' = messages \/ messages = <<>>
        /\ (status = "chatbot" /\ step' # step) =>
              /\ Len(messages') = Len(messages) + 1
              /\ Last(messages').type = "ai"
              /\ status' \in {"tools", "done", "out_of_steps"}
        /\ (status = "tools" /\ step' # step) =>
              /\ Len(messages') = Len(messages) + Len(PendingCalls)
              /\ \A p \in 1..Len(PendingCalls) :
                    /\ messages'[Len(messages) + p].type = "tool"
                    /\ messages'[Len(messages) + p].tool_call_id = PendingCalls[p]
              /\ status' \in {"chatbot", "out_of_steps"}

C13_SequentialAppendOnly ==
    []C13_AlternationInv /\ [][C13_AppendOnlyStep]_vars

\* Two full chatbot -> tools rounds have been made.
C13_Witness ==
    /\ status = "chatbot"
    /\ step = 4
    /\ Len(messages) >= 5

\* ------------------------------------------------------------------------
\* C14: a results block is shown only for a run that reached DONE and whose
\* script run was not stopped; a run ended by a model failure or by the
\* recursion limit shows no result, a stopped script run shows none of the
\* outcomes; an Analyze click whose script run runs to its end shows exactly
\* one of: results, missing-response error, no-agent warning, analysis error.
\* ------------------------------------------------------------------------
Outcomes == {"results", "err_missing", "warn_noagent", "err_analysis"}

C16_CredentialInv ==
    /\ medical_agent => (llmKey = OPENAI_API_KEY /\ llmKey # None)
    /\ status \in {"chatbot", "tools"} => medical_agent
    /\ pc = "rerun" => (status = "none" /\ ~medical_agent /\ ~analyze_button)

C16_CredentialStep ==
    /\ OPENAI_API_KEY' # OPENAI_API_KEY =>
          (pc = "idle" /\ pc' = "rerun" /\ status' = "none")
    /\ pc = "rerun" => (pc' = "init" /\ ~analyze_button')
    /\ (llmKey' # llmKey /\ llmKey' # None) => (pc = "init" /\ llmKey = None)

C16_CredentialStableInRun == []C16_CredentialInv /\ [][C16_CredentialStep]_vars

\* A graph run is under way with the key that was typed into the sidebar.
C16_Witness ==
    /\ status = "tools"
    /\ llmKey = "sk-1"
    /\ OPENAI_API_KEY = "sk-1"

\* ------------------------------------------------------------------------
\* C17: a graph run starts from one user message, the prompt followed by one
\* image part, with one tool declared; before the run the conversation is
\* empty, the loop appends AI and tool messages only, and tool calls are
\* carried by AI messages only.
\* ------------------------------------------------------------------------
C17_FreshConversation ==
    /\ Cardinality(tools) = 1
    /\ pc \in {"init", "upload", "try"} => messages = <<>>
    /\ (pc = "invoke" /\ step = 0) => Len(messages) = 1
    /\ messages # <<>> =>
          /\ messages[1].type = "human"
          /\ messages[1].content = <<Tok("query", 0), Tok("image", 0)>>
          /\ \A i \in 2..Len(messages) : messages[i].type \in {"ai", "tool"}
          /\ \A i \in 1..Len(messages) :
                messages[i].tool_calls # <<>> => messages[i].type = "ai"

\* A run with a tool round, started from the one user message.
C17_Witness ==
    /\ Len(messages) >= 3
    /\ messages[1].type = "human"
    /\ messages[3].type = "tool"
====
